---- MODULE Spec2Model ----
(***************************************************************************)
(* A model of the JSONLogic rules wrapper: evaluateRule (evaluator.ts),    *)
(* getRequiredKeys (analyzer.ts) and canExecuteRule / hasKey               *)
(* (validator.ts).                                                         *)
(*                                                                         *)
(* JavaScript values are tagged records; the payload field has a different *)
(* name for every type, so values of different types compare unequal.      *)
(* A JavaScript string is the sequence of its characters, so splitting a   *)
(* path on "." and concatenating messages are computed, not assumed.       *)
(***************************************************************************)
EXTENDS Integers, Sequences, FiniteSets, TLC

VARIABLES rule, data, call, result, engineData, engineOutcome, calls, sets

vars == <<rule, data, call, result, engineData, engineOutcome, calls, sets>>

(***************************************************************************)
(* JavaScript values                                                       *)
(***************************************************************************)
Null == [t |-> "null"]

Undefined == [t |-> "undefined"]

Bool(b) == [t |-> "boolean", b |-> b]

Num(n) == [t |-> "number", n |-> n]

Str(s) == [t |-> "string", s |-> s]

Arr(items) == [t |-> "array", items |-> items]

\* props: the own properties, as <<key, value>> records in insertion order
Obj(props) == [t |-> "object", props |-> props]

Prop(k, v) == [k |-> k, v |-> v]

\* a method inherited from a prototype
Fn == [t |-> "function"]

\* an instance of Error with its message
ErrorObj(msg) == [t |-> "Error", message |-> msg]

\* how a call ends
Return(v) == [kind |-> "return", value |-> v]

Throw(e) == [kind |-> "throw", error |-> e]

NoResult == [kind |-> "none"]

(***************************************************************************)
(* Strings used by the code and by the inputs                              *)
(***************************************************************************)
DOT == "."

VAR == <<"v", "a", "r">>

EMPTY == <<>>

A == <<"a">>

B == <<"b">>

AB == <<"a", ".", "b">>

ZERO == <<"0">>

ONE == <<"1">>

AND == <<"a", "n", "d">>

OR == <<"o", "r">>

LENGTH == <<"l", "e", "n", "g", "t", "h">>

TOSTRING == <<"t", "o", "S", "t", "r", "i", "n", "g">>

CONSTRUCTOR == <<"c", "o", "n", "s", "t", "r", "u", "c", "t", "o", "r">>

MESSAGE == <<"m", "e", "s", "s", "a", "g", "e">>

\* names every plain object inherits from Object.prototype
ObjectPrototypeKeys == {TOSTRING, CONSTRUCTOR}

Digits == <<"0", "1", "2", "3", "4", "5", "6", "7", "8", "9">>

IsDigit(c) == \E i \in 1..Len(Digits) : Digits[i] = c

DigitValue(c) == (CHOOSE i \in 1..Len(Digits) : Digits[i] = c) - 1

RECURSIVE DecimalValue(_)
DecimalValue(s) ==
  IF s = <<>> THEN 0
  ELSE 10 * DecimalValue(SubSeq(s, 1, Len(s) - 1)) + DigitValue(s[Len(s)])

\* a canonical array index: decimal digits without a leading zero
IsArrayIndex(s) ==
  /\ Len(s) >= 1
  /\ \A i \in 1..Len(s) : IsDigit(s[i])
  /\ (Len(s) > 1 => s[1] # "0")

(***************************************************************************)
(* JavaScript operators the code uses                                      *)
(***************************************************************************)
\* typeof v
TypeOf(v) ==
  IF v.t \in {"null", "array", "object", "Error"} THEN "object" ELSE v.t

\* v == null
IsNullish(v) == v.t \in {"null", "undefined"}

\* Array.isArray(v)
IsArray(v) == v.t = "array"

HasOwn(v, key) ==
  IF v.t = "object" THEN \E i \in 1..Len(v.props) : v.props[i].k = key
  ELSE IF v.t = "array"
    THEN key = LENGTH \/ (IsArrayIndex(key) /\ DecimalValue(key) < Len(v.items))
  ELSE IF v.t = "Error" THEN key = MESSAGE
  ELSE FALSE

\* key in v: own or inherited; a TypeError when v is not an object
InOp(key, v) ==
  IF TypeOf(v) \notin {"object", "function"} \/ v.t = "null"
    THEN Throw(ErrorObj(<<"TypeError">>))
    ELSE Return(HasOwn(v, key) \/ key \in ObjectPrototypeKeys)

\* v[key], for an object v
GetProp(v, key) ==
  IF v.t = "object" /\ HasOwn(v, key)
    THEN v.props[CHOOSE i \in 1..Len(v.props) : v.props[i].k = key].v
  ELSE IF v.t = "array" /\ key = LENGTH THEN Num(Len(v.items))
  ELSE IF v.t = "array" /\ HasOwn(v, key) THEN v.items[DecimalValue(key) + 1]
  ELSE IF v.t = "Error" /\ key = MESSAGE THEN Str(v.message)
  ELSE IF key \in ObjectPrototypeKeys THEN Fn
  ELSE Undefined

\* the property values in insertion order, whatever the names
ObjectValuesInsertion(obj) == [i \in 1..Len(obj.props) |-> obj.props[i].v]

\* Object.values(obj): integer-like keys first, ascending, then the other
\* keys in insertion order
ObjectValues(obj) ==
  LET idx == SelectSeq(obj.props, LAMBDA p : IsArrayIndex(p.k))
      str == SelectSeq(obj.props, LAMBDA p : ~IsArrayIndex(p.k))
      ord == SortSeq(idx, LAMBDA p, q : DecimalValue(p.k) < DecimalValue(q.k)) \o str
  IN [i \in 1..Len(ord) |-> ord[i].v]

\* keyPath.split('.')
RECURSIVE SplitFrom(_, _, _)
SplitFrom(s, i, cur) ==
  IF i > Len(s) THEN <<cur>>
  ELSE IF s[i] = DOT THEN <<cur>> \o SplitFrom(s, i + 1, <<>>)
  ELSE SplitFrom(s, i + 1, Append(cur, s[i]))

\* a split that drops the empty segments
SplitNonEmpty(s) == SelectSeq(SplitFrom(s, 1, <<>>), LAMBDA seg : seg # <<>>)

Split(s) == SplitFrom(s, 1, <<>>)

(***************************************************************************)
(* analyzer.ts                                                             *)
(***************************************************************************)
\* a list in place of the Set: every add appends
SetAddAlways(keys, k) == Append(keys, k)

\* Set.prototype.add on a Set kept as the sequence of its elements in
\* insertion order (the order Array.from returns)
SetAdd(keys, k) ==
  IF \E i \in 1..Len(keys) : keys[i] = k THEN keys ELSE Append(keys, k)

\* the 'var' branch without the array form {"var": [key, default]}
RecordVarStringOnly(obj, keys) ==
  LET varValue == GetProp(obj, VAR) IN
    IF TypeOf(varValue) = "string" THEN SetAdd(keys, varValue.s) ELSE keys

\* the 'var' branch adding every string element of the array form
RecordVarAllStrings(obj, keys) ==
  LET varValue == GetProp(obj, VAR)
      F[i \in 0..(IF IsArray(varValue) THEN Len(varValue.items) ELSE 0)] ==
        IF i = 0 THEN keys
        ELSE IF TypeOf(varValue.items[i]) = "string"
          THEN SetAdd(F[i - 1], varValue.items[i].s)
        ELSE F[i - 1]
  IN IF TypeOf(varValue) = "string" THEN SetAdd(keys, varValue.s)
     ELSE IF IsArray(varValue) /\ Len(varValue.items) > 0
             /\ TypeOf(varValue.items[1]) = "string"
       THEN F[Len(varValue.items)]
     ELSE keys

\* the 'var' branch turning a numeric var into a string key
RecordVarCoerce(obj, keys) ==
  LET varValue == GetProp(obj, VAR) IN
    IF TypeOf(varValue) = "string" THEN SetAdd(keys, varValue.s)
    ELSE IF TypeOf(varValue) = "number" /\ varValue.n \in 0..9
      THEN SetAdd(keys, <<Digits[varValue.n + 1]>>)
    ELSE IF IsArray(varValue) /\ Len(varValue.items) > 0
            /\ TypeOf(varValue.items[1]) = "string"
      THEN SetAdd(keys, varValue.items[1].s)
    ELSE keys

\* the 'var' branch of traverse: what the node itself adds to keys
RecordVar(obj, keys) ==
  LET varValue == GetProp(obj, VAR) IN
    IF TypeOf(varValue) = "string" THEN SetAdd(keys, varValue.s)
    ELSE IF IsArray(varValue) /\ Len(varValue.items) > 0
            /\ TypeOf(varValue.items[1]) = "string"
      THEN SetAdd(keys, varValue.items[1].s)
    ELSE keys

RECURSIVE Traverse(_, _), TraverseEach(_, _, _)

\* the values traverse would descend into with the var property left out
ValuesExceptVar(obj) ==
  ObjectValues(Obj(SelectSeq(obj.props, LAMBDA p : p.k # VAR)))

\* traverse that records a var node and does not descend into the var value
TraverseSkipVarValue(node, keys) ==
  IF IsNullish(node) THEN Return(keys)
  ELSE IF IsArray(node) THEN TraverseEach(node.items, 1, Return(keys))
  ELSE IF TypeOf(node) = "object" THEN
    LET hasVar == InOp(VAR, node) IN
      IF hasVar.kind = "throw" THEN hasVar
      ELSE TraverseEach(ValuesExceptVar(node), 1,
             Return(IF hasVar.value THEN RecordVar(node, keys) ELSE keys))
  ELSE Return(keys)

\* the values traverse would descend into with an array-form var cut down to
\* its first element
ValuesPathOnly(obj) ==
  LET vs == ObjectValues(obj) IN
    [i \in 1..Len(vs) |->
       IF vs[i] = GetProp(obj, VAR) /\ IsArray(vs[i]) /\ Len(vs[i].items) > 1
         THEN Arr(<<vs[i].items[1]>>) ELSE vs[i]]

\* traverse that never looks at the default value of an array-form var
TraverseSkipDefault(node, keys) ==
  IF IsNullish(node) THEN Return(keys)
  ELSE IF IsArray(node) THEN TraverseEach(node.items, 1, Return(keys))
  ELSE IF TypeOf(node) = "object" THEN
    LET hasVar == InOp(VAR, node) IN
      IF hasVar.kind = "throw" THEN hasVar
      ELSE TraverseEach(IF hasVar.value THEN ValuesPathOnly(node)
                        ELSE ObjectValues(node), 1,
             Return(IF hasVar.value THEN RecordVar(node, keys) ELSE keys))
  ELSE Return(keys)

\* traverse that records the var of a node after it has traversed the
\* property values
TraversePostOrder(node, keys) ==
  IF IsNullish(node) THEN Return(keys)
  ELSE IF IsArray(node) THEN TraverseEach(node.items, 1, Return(keys))
  ELSE IF TypeOf(node) = "object" THEN
    LET hasVar == InOp(VAR, node) IN
      IF hasVar.kind = "throw" THEN hasVar
      ELSE LET below == TraverseEach(ObjectValues(node), 1, Return(keys)) IN
        IF below.kind = "throw" \/ ~hasVar.value THEN below
        ELSE Return(RecordVar(node, below.value))
  ELSE Return(keys)

\* traverse(node) with the Set before the call; the result is Return(the Set
\* after the call) or the exception the call ends with
Traverse(node, keys) ==
  IF IsNullish(node) THEN Return(keys)
  ELSE IF IsArray(node) THEN TraverseEach(node.items, 1, Return(keys))
  ELSE IF TypeOf(node) = "object" THEN
    LET hasVar == InOp(VAR, node) IN
      IF hasVar.kind = "throw" THEN hasVar
      ELSE TraverseEach(ObjectValues(node), 1,
             Return(IF hasVar.value THEN RecordVar(node, keys) ELSE keys))
  ELSE Return(keys)

\* the for-of loops of traverse, from element i on
TraverseEach(items, i, st) ==
  IF st.kind = "throw" \/ i > Len(items) THEN st
  ELSE TraverseEach(items, i + 1, Traverse(items[i], st.value))

\* Array.from(keys): the Set's elements, in insertion order, as an array
ArrayFrom(keys) == Arr([i \in 1..Len(keys) |-> Str(keys[i])])

\* getRequiredKeys(rule): Return(the array of keys) or a Throw
getRequiredKeys(r) ==
  LET t == Traverse(r, <<>>) IN
    IF t.kind = "throw" THEN t ELSE Return(ArrayFrom(t.value))

(***************************************************************************)
(* validator.ts                                                            *)
(***************************************************************************)
RECURSIVE HasKeyUnguarded(_, _, _)
\* the loop of hasKey without the test that current is an object
HasKeyUnguarded(keys, i, current) ==
  IF i > Len(keys) THEN Return(Bool(TRUE))
  ELSE LET has == InOp(keys[i], current) IN
    IF has.kind = "throw" THEN has
    ELSE IF ~has.value THEN Return(Bool(FALSE))
    ELSE HasKeyUnguarded(keys, i + 1, GetProp(current, keys[i]))

RECURSIVE HasKeyNullOnly(_, _, _)
\* the loop of hasKey testing current against null and undefined only
HasKeyNullOnly(keys, i, current) ==
  IF i > Len(keys) THEN Return(Bool(TRUE))
  ELSE IF IsNullish(current) THEN Return(Bool(FALSE))
  ELSE LET has == InOp(keys[i], current) IN
    IF has.kind = "throw" THEN has
    ELSE IF ~has.value THEN Return(Bool(FALSE))
    ELSE HasKeyNullOnly(keys, i + 1, GetProp(current, keys[i]))

RECURSIVE HasKeySoleProperty(_, _, _)
\* the loop of hasKey accepting a segment only where it is the one property
\* of the object reached
HasKeySoleProperty(keys, i, current) ==
  IF i > Len(keys) THEN Return(Bool(TRUE))
  ELSE IF IsNullish(current) \/ TypeOf(current) # "object" THEN Return(Bool(FALSE))
  ELSE LET has == InOp(keys[i], current) IN
    IF has.kind = "throw" THEN has
    ELSE IF ~has.value THEN Return(Bool(FALSE))
    ELSE IF current.t = "object" /\ Len(current.props) > 1 THEN Return(Bool(FALSE))
    ELSE HasKeySoleProperty(keys, i + 1, GetProp(current, keys[i]))

RECURSIVE HasKeyNoArrays(_, _, _)
\* the loop of hasKey refusing to look inside arrays
HasKeyNoArrays(keys, i, current) ==
  IF i > Len(keys) THEN Return(Bool(TRUE))
  ELSE IF IsNullish(current) \/ TypeOf(current) # "object" \/ IsArray(current)
    THEN Return(Bool(FALSE))
  ELSE LET has == InOp(keys[i], current) IN
    IF has.kind = "throw" THEN has
    ELSE IF ~has.value THEN Return(Bool(FALSE))
    ELSE HasKeyNoArrays(keys, i + 1, GetProp(current, keys[i]))

RECURSIVE HasKeyFrom(_, _, _)
\* the loop of hasKey from segment i on, current being the value reached
HasKeyFrom(keys, i, current) ==
  IF i > Len(keys) THEN Return(Bool(TRUE))
  ELSE IF IsNullish(current) \/ TypeOf(current) # "object" THEN Return(Bool(FALSE))
  ELSE LET has == InOp(keys[i], current) IN
    IF has.kind = "throw" THEN has
    ELSE IF ~has.value THEN Return(Bool(FALSE))
    ELSE HasKeyFrom(keys, i + 1, GetProp(current, keys[i]))

\* hasKey looking for a property named by the whole path before splitting it
hasKeyLiteralFirst(d, keyPath) ==
  IF d.t = "object" /\ HasOwn(d, keyPath.s) THEN Return(Bool(TRUE))
  ELSE HasKeyFrom(Split(keyPath.s), 1, d)

\* hasKey(data, keyPath), keyPath a string
hasKey(d, keyPath) == HasKeyFrom(Split(keyPath.s), 1, d)

\* the loop of canExecuteRule returning true at the first key that exists
CheckKeysAny(requiredKeys, i, d) ==
  Return(Bool(\E j \in i..Len(requiredKeys) :
                hasKey(d, requiredKeys[j]) = Return(Bool(TRUE))))

RECURSIVE CheckKeysFrom(_, _, _)
\* the loop of canExecuteRule over requiredKeys, from element i on
CheckKeysFrom(requiredKeys, i, d) ==
  IF i > Len(requiredKeys) THEN Return(Bool(TRUE))
  ELSE LET has == hasKey(d, requiredKeys[i]) IN
    IF has.kind = "throw" THEN has
    ELSE IF ~has.value.b THEN Return(Bool(FALSE))
    ELSE CheckKeysFrom(requiredKeys, i + 1, d)

\* canExecuteRule rejecting data that is not an object before looking at the rule
canExecuteRuleObjectOnly(r, d) ==
  IF IsNullish(d) \/ TypeOf(d) # "object" \/ IsArray(d) THEN Return(Bool(FALSE))
  ELSE LET requiredKeys == getRequiredKeys(r) IN
    IF requiredKeys.kind = "throw" THEN requiredKeys
    ELSE CheckKeysFrom(requiredKeys.value.items, 1, d)

\* canExecuteRule following the short circuit of `or`: one executable
\* branch is enough
canExecuteRuleOrAny(r, d) ==
  IF r.t = "object" /\ Len(r.props) = 1 /\ r.props[1].k = OR /\ IsArray(r.props[1].v)
    THEN Return(Bool(\E j \in 1..Len(r.props[1].v.items) :
           LET requiredKeys == getRequiredKeys(r.props[1].v.items[j]) IN
             CheckKeysFrom(requiredKeys.value.items, 1, d) = Return(Bool(TRUE))))
  ELSE LET requiredKeys == getRequiredKeys(r) IN
    IF requiredKeys.kind = "throw" THEN requiredKeys
    ELSE IF Len(requiredKeys.value.items) = 0 THEN Return(Bool(TRUE))
    ELSE CheckKeysFrom(requiredKeys.value.items, 1, d)

\* canExecuteRule(rule, data)
canExecuteRule(r, d) ==
  LET requiredKeys == getRequiredKeys(r) IN
    IF requiredKeys.kind = "throw" THEN requiredKeys
    ELSE IF Len(requiredKeys.value.items) = 0 THEN Return(Bool(TRUE))
    ELSE CheckKeysFrom(requiredKeys.value.items, 1, d)

(***************************************************************************)
(* evaluator.ts                                                            *)
(***************************************************************************)
\* "Failed to evaluate rule: "
PREFIX ==
  <<"F", "a", "i", "l", "e", "d", " ", "t", "o", " ", "e", "v", "a", "l", "u",
    "a", "t", "e", " ", "r", "u", "l", "e", ":", " ">>

\* "Unknown error"
UNKNOWN == <<"U", "n", "k", "n", "o", "w", "n", " ", "e", "r", "r", "o", "r">>

\* data || {}: every falsy data replaced
DataOrEmptyFalsy(d) ==
  IF IsNullish(d) \/ d \in {Num(0), Str(<<>>), Bool(FALSE)} THEN Obj(<<>>) ELSE d

\* data ?? {}: what evaluateRule hands to jsonLogic.apply
DataOrEmpty(d) == IF IsNullish(d) THEN Obj(<<>>) ELSE d

\* a catch block that wraps Error instances only and rethrows anything else
CatchBlockRethrow(error) ==
  IF error.t = "Error" THEN Throw(ErrorObj(PREFIX \o error.message))
  ELSE Throw(error)

\* a catch block that reads the message of whatever carries one
CatchBlockDuckTyped(error) ==
  IF error.t = "Error" THEN Throw(ErrorObj(PREFIX \o error.message))
  ELSE IF error.t = "object" /\ HasOwn(error, MESSAGE)
          /\ GetProp(error, MESSAGE).t = "string"
    THEN Throw(ErrorObj(PREFIX \o GetProp(error, MESSAGE).s))
  ELSE Throw(ErrorObj(PREFIX \o UNKNOWN))

\* the catch block: how evaluateRule ends when jsonLogic.apply threw error
CatchBlock(error) ==
  IF error.t = "Error" THEN Throw(ErrorObj(PREFIX \o error.message))
  ELSE Throw(ErrorObj(PREFIX \o UNKNOWN))

\* evaluateRule coercing the engine's value to a boolean
evaluateRuleBoolean(r, d, outcome) ==
  IF outcome.kind = "return"
    THEN Return(Bool(outcome.value \notin
           {Null, Undefined, Num(0), Str(<<>>), Bool(FALSE)}))
  ELSE CatchBlock(outcome.error)

\* evaluateRule(rule, data), outcome being how jsonLogic.apply ended
evaluateRule(r, d, outcome) ==
  IF outcome.kind = "return" THEN Return(outcome.value)
  ELSE CatchBlock(outcome.error)

(***************************************************************************)
(* Inputs                                                                  *)
(***************************************************************************)
\* number of distinct paths the analysed rules refer to
NumPaths == 2

\* longest argument array of an operator in the analysed rules
MaxArgs == 2

\* most segments of a path in the validated rules
MaxSegs == 2

SeqsUpTo(S, n) == UNION {[1..k -> S] : k \in 0..n}

VarNode(v) == Obj(<<Prop(VAR, v)>>)

Op(name, arg) == Obj(<<Prop(name, arg)>>)

PathList == <<A, B, AB, EMPTY>>

Paths == {PathList[i] : i \in {j \in 1..Len(PathList) : j <= NumPaths}}

Leaves == {Null, Undefined, Num(1), Str(A), Bool(TRUE)}

SimpleRefs == {VarNode(Str(p)) : p \in Paths}

\* var nodes that name a path: string form, default form, default holding a var
VarRefs ==
  SimpleRefs
  \cup {VarNode(Arr(<<Str(p), Str(B)>>)) : p \in Paths}
  \cup {VarNode(Arr(<<Str(p), VarNode(Str(q))>>)) : p \in Paths, q \in Paths}

\* objects with a var property that names no path, and the empty object
\* array forms with more than one element after the path, and defaults that
\* hold a var deeper down
LongVarRefs ==
  {VarNode(Arr(<<Str(p), Str(q), Str(AB)>>)) : p \in Paths, q \in Paths}
  \cup {VarNode(Arr(<<Str(p), Op(AND, Arr(<<Num(1), VarNode(Str(q))>>))>>)) :
          p \in Paths, q \in Paths}
  \cup {VarNode(Arr(<<Str(p), Arr(<<Str(q), VarNode(Arr(<<Str(q), Null>>))>>)>>)) :
          p \in Paths, q \in Paths}

OddNodes ==
  {VarNode(Num(1)), VarNode(Null), VarNode(Arr(<<>>)),
   VarNode(Arr(<<Num(1), Str(A)>>)), VarNode(VarNode(Str(A))), VarNode(Bool(TRUE)),
   Obj(<<>>)}

Atoms == Leaves \cup VarRefs \cup OddNodes

ArgLists == SeqsUpTo(Atoms, MaxArgs)

\* rules for getRequiredKeys: atoms, operators over argument arrays, bare
\* arrays, unary operators, objects with several properties, nested operators
AnalyzerRules ==
  Atoms
  \cup LongVarRefs
  \cup {Op(AND, Arr(args)) : args \in ArgLists}
  \cup {Arr(args) : args \in ArgLists}
  \cup {Op(OR, x) : x \in Atoms}
  \cup {Obj(<<Prop(AND, Arr(<<x>>)), Prop(VAR, Str(p))>>) : x \in VarRefs, p \in Paths}
  \cup {Obj(<<Prop(VAR, Str(p)), Prop(AND, Arr(<<x>>))>>) : x \in VarRefs, p \in Paths}
  \cup {Obj(<<Prop(B, x), Prop(ONE, y), Prop(ZERO, z)>>) :
          x \in SimpleRefs, y \in SimpleRefs, z \in SimpleRefs}
  \cup {Op(OR, Arr(<<Op(AND, Arr(<<x, y>>)), z>>)) :
          x \in SimpleRefs \cup {Num(1)}, y \in SimpleRefs \cup {Num(1)},
          z \in SimpleRefs \cup {Num(1)}}

Segments == {A, B, EMPTY, ZERO, ONE, LENGTH, TOSTRING}

RECURSIVE Join(_)
\* segments joined with "."
Join(segs) ==
  IF Len(segs) = 1 THEN segs[1] ELSE segs[1] \o <<DOT>> \o Join(Tail(segs))

ValidatorPaths == {Join(segs) : segs \in SeqsUpTo(Segments, MaxSegs) \ {<<>>}}

StaticRules ==
  {Null, Undefined, Num(1), Str(A), Obj(<<>>), Arr(<<Num(1), Num(1)>>),
   Op(AND, Arr(<<Num(1), Str(A)>>)), VarNode(Num(0))}

\* rules for canExecuteRule: no key, one key, two keys
ValidatorRules ==
  StaticRules
  \cup OddNodes
  \cup {VarNode(Str(p)) : p \in ValidatorPaths}
  \cup {Op(AND, Arr(<<VarNode(Str(p)), VarNode(Arr(<<Str(q), Num(1)>>))>>)) :
          p \in Segments, q \in Segments}
  \cup {Op(OR, Arr(<<VarNode(Str(p)), Op(AND, Arr(<<Num(1), VarNode(Str(q))>>))>>)) :
          p \in {A, B}, q \in {A, B, AB}}
  \cup {VarNode(Str(Join(<<A, EMPTY, B>>)))}

Primitives == {Null, Undefined, Num(1), Str(A), Bool(FALSE)}

InnerValues ==
  Primitives
  \cup {Obj(<<>>), Arr(<<>>), Arr(<<Num(1)>>), Arr(<<Obj(<<Prop(A, Null)>>)>>)}
  \cup {Obj(<<Prop(k, v)>>) : k \in {A, B}, v \in {Null, Undefined, Num(1)}}

DataKeys == {A, B, EMPTY, AB, TOSTRING}

\* data for canExecuteRule: primitives, arrays, objects to depth two
ValidatorData ==
  Primitives
  \cup {Arr(<<>>), Arr(<<Obj(<<Prop(A, Num(1))>>)>>), Obj(<<>>)}
  \cup {Obj(<<Prop(k, v)>>) : k \in DataKeys, v \in InnerValues}
  \cup {Obj(<<Prop(A, v), Prop(B, w)>>) :
          v \in {Null, Num(1), Obj(<<Prop(B, Null)>>)},
          w \in {Undefined, Num(1), Obj(<<Prop(A, Num(1))>>)}}
  \cup {Obj(<<Prop(A, Obj(<<Prop(EMPTY, v)>>))>>) :
          v \in {Null, Obj(<<Prop(B, Num(1))>>)}}

EvaluatorRules == {Null, Num(1), VarNode(Str(A)), Op(AND, Arr(<<VarNode(Str(A)), Num(1)>>))}

\* data for evaluateRule; Undefined is also the omitted argument
EvaluatorData ==
  {Undefined, Null, Num(0), Str(EMPTY), Bool(FALSE), Obj(<<>>),
   Obj(<<Prop(A, Num(1))>>), Arr(<<>>)}

ThrownValues ==
  {ErrorObj(<<>>), ErrorObj(<<"b", "o", "o", "m">>), Str(<<"b", "o", "o", "m">>),
   Obj(<<Prop(MESSAGE, Str(<<"b", "o", "o", "m">>))>>), Obj(<<>>), Null, Undefined, Num(1)}

ReturnedValues ==
  {Bool(TRUE), Bool(FALSE), Num(0), Num(1), Str(EMPTY), Str(A), Null,
   Arr(<<Num(1)>>), Obj(<<Prop(A, Num(1))>>)}

\* how a call of jsonLogic.apply can end
EngineOutcomes ==
  {Return(v) : v \in ReturnedValues} \cup {Throw(e) : e \in ThrownValues}

(***************************************************************************)
(* The calls                                                               *)
(***************************************************************************)
NoCall == [t |-> "none"]

\* the callers whose invocations may overlap
Callers == {"c1", "c2"}

\* an invocation slot with no call in progress
Idle ==
  [fn |-> "none", rule |-> Undefined, data |-> Undefined, pc |-> "idle",
   stack |-> <<>>, requiredKeys |-> <<>>, i |-> 0, result |-> NoResult]

InitFrom(rules, datas) ==
  /\ calls = [c \in Callers |-> Idle]
  /\ sets = [c \in Callers |-> <<>>]
  /\ rule \in rules
  /\ data \in datas
  /\ call = "none"
  /\ result = NoResult
  /\ engineData = NoCall
  /\ engineOutcome = NoResult

InitAnalyzer == InitFrom(AnalyzerRules, {Undefined})

InitValidator == InitFrom(ValidatorRules, ValidatorData)

InitEvaluator == InitFrom(EvaluatorRules, EvaluatorData)

GetRequiredKeys ==
  /\ call' = "getRequiredKeys"
  /\ result' = getRequiredKeys(rule)
  /\ UNCHANGED <<rule, data, engineData, engineOutcome, calls, sets>>

CanExecuteRule ==
  /\ call' = "canExecuteRule"
  /\ result' = canExecuteRule(rule, data)
  /\ UNCHANGED <<rule, data, engineData, engineOutcome, calls, sets>>

EvaluateRule ==
  \E outcome \in EngineOutcomes :
    /\ call' = "evaluateRule"
    /\ engineData' = DataOrEmpty(data)
    /\ engineOutcome' = outcome
    /\ result' = evaluateRule(rule, data, outcome)
    /\ UNCHANGED <<rule, data, calls, sets>>

NextAnalyzer == GetRequiredKeys

NextValidator == GetRequiredKeys \/ CanExecuteRule

NextEvaluator == EvaluateRule

SpecAnalyzer == InitAnalyzer /\ [][NextAnalyzer]_vars

SpecValidator == InitValidator /\ [][NextValidator]_vars

SpecEvaluator == InitEvaluator /\ [][NextEvaluator]_vars

(***************************************************************************)
(* Overlapping invocations: the three functions one step at a time.  Each  *)
(* caller has its own activation (arguments, pending nodes of traverse,    *)
(* loop index of canExecuteRule); sets is the heap of Set objects.         *)
(***************************************************************************)
InterleavedRules ==
  {Num(1), VarNode(Str(A)),
   Arr(<<VarNode(Str(B)), VarNode(Str(A))>>),
   Op(AND, Arr(<<VarNode(Str(AB)), VarNode(Arr(<<Str(B), VarNode(Str(A))>>))>>))}

InterleavedData ==
  {Undefined, Obj(<<Prop(A, Obj(<<Prop(B, Null)>>)), Prop(B, Num(1))>>)}

InterleavedOutcomes ==
  {Return(Bool(TRUE)), Throw(ErrorObj(<<"b", "o", "o", "m">>)), Throw(Null)}

\* one Set shared by every invocation
KeySetShared(c) == "c1"

\* the Set object `keys` of the invocation of caller c
KeySetOf(c) == c

\* the Set of the previous invocation kept
NewSetKept(old) == old

\* new Set(): the content of keys when an invocation starts, old being what
\* the previous invocation left
NewSet(old) == <<>>

InitInterleaved ==
  /\ InitFrom({Null}, {Undefined})

\* a caller calls getRequiredKeys(r), canExecuteRule(r, d) or evaluateRule(r, d)
Invoke(c) ==
  /\ calls[c].pc = "idle"
  /\ \E f \in {"getRequiredKeys", "canExecuteRule", "evaluateRule"} :
       \E r \in InterleavedRules :
         \E d \in (IF f = "getRequiredKeys" THEN {Undefined} ELSE InterleavedData) :
           /\ calls' = [calls EXCEPT ![c] =
                [Idle EXCEPT !.fn = f, !.rule = r, !.data = d, !.stack = <<r>>,
                   !.pc = IF f = "evaluateRule" THEN "apply" ELSE "traverse"]]
           /\ sets' = IF f = "evaluateRule" THEN sets
                      ELSE [sets EXCEPT ![KeySetOf(c)] = NewSet(@)]
  /\ UNCHANGED <<rule, data, call, result, engineData, engineOutcome>>

\* traverse written as a loop that empties the arrays it visits
TraverseStepShift(c) ==
  /\ calls[c].pc = "traverse"
  /\ calls[c].stack # <<>>
  /\ LET node == Head(calls[c].stack)
         rest == Tail(calls[c].stack)
     IN IF IsNullish(node) THEN
          /\ calls' = [calls EXCEPT ![c].stack = rest]
          /\ sets' = sets
        ELSE IF IsArray(node) THEN
          /\ calls' = [calls EXCEPT ![c].stack = node.items \o rest,
                                    ![c].rule = IF @ = node THEN Arr(<<>>) ELSE @]
          /\ sets' = sets
        ELSE IF TypeOf(node) = "object" THEN
          /\ calls' = [calls EXCEPT ![c].stack = ObjectValues(node) \o rest]
          /\ sets' = IF InOp(VAR, node).value
                       THEN [sets EXCEPT ![KeySetOf(c)] = RecordVar(node, @)]
                       ELSE sets
        ELSE
          /\ calls' = [calls EXCEPT ![c].stack = rest]
          /\ sets' = sets
  /\ UNCHANGED <<rule, data, call, result, engineData, engineOutcome>>

\* one activation of traverse: the node on top of the pending nodes is
\* visited, its children become the next pending nodes
TraverseStep(c) ==
  /\ calls[c].pc = "traverse"
  /\ calls[c].stack # <<>>
  /\ LET node == Head(calls[c].stack)
         rest == Tail(calls[c].stack)
     IN IF IsNullish(node) THEN
          /\ calls' = [calls EXCEPT ![c].stack = rest]
          /\ sets' = sets
        ELSE IF IsArray(node) THEN
          /\ calls' = [calls EXCEPT ![c].stack = node.items \o rest]
          /\ sets' = sets
        ELSE IF TypeOf(node) = "object" THEN
          /\ calls' = [calls EXCEPT ![c].stack = ObjectValues(node) \o rest]
          /\ sets' = IF InOp(VAR, node).value
                       THEN [sets EXCEPT ![KeySetOf(c)] = RecordVar(node, @)]
                       ELSE sets
        ELSE
          /\ calls' = [calls EXCEPT ![c].stack = rest]
          /\ sets' = sets
  /\ UNCHANGED <<rule, data, call, result, engineData, engineOutcome>>

\* traverse(rule) has returned: Array.from(keys); getRequiredKeys returns
\* it, canExecuteRule returns true if it is empty and goes on to its loop
\* otherwise
TraverseEnd(c) ==
  /\ calls[c].pc = "traverse"
  /\ calls[c].stack = <<>>
  /\ LET requiredKeys == ArrayFrom(sets[KeySetOf(c)]) IN
       calls' = [calls EXCEPT ![c] =
         IF calls[c].fn = "getRequiredKeys"
           THEN [@ EXCEPT !.pc = "done", !.result = Return(requiredKeys)]
         ELSE IF Len(requiredKeys.items) = 0
           THEN [@ EXCEPT !.pc = "done", !.result = Return(Bool(TRUE))]
         ELSE [@ EXCEPT !.pc = "check", !.requiredKeys = requiredKeys.items, !.i = 1]]
  /\ UNCHANGED <<rule, data, call, result, engineData, engineOutcome, sets>>

\* one turn of the loop of canExecuteRule over requiredKeys
HasKeyStep(c) ==
  /\ calls[c].pc = "check"
  /\ calls' = [calls EXCEPT ![c] =
       IF calls[c].i > Len(calls[c].requiredKeys)
         THEN [@ EXCEPT !.pc = "done", !.result = Return(Bool(TRUE))]
       ELSE LET has == hasKey(calls[c].data, calls[c].requiredKeys[calls[c].i]) IN
         IF has.kind = "throw" THEN [@ EXCEPT !.pc = "done", !.result = has]
         ELSE IF ~has.value.b
           THEN [@ EXCEPT !.pc = "done", !.result = Return(Bool(FALSE))]
         ELSE [@ EXCEPT !.i = @ + 1]]
  /\ UNCHANGED <<rule, data, call, result, engineData, engineOutcome, sets>>

\* evaluateRule: the call of jsonLogic.apply and the catch block
ApplyStep(c) ==
  /\ calls[c].pc = "apply"
  /\ \E outcome \in InterleavedOutcomes :
       calls' = [calls EXCEPT ![c].pc = "done",
                   ![c].result = evaluateRule(calls[c].rule, calls[c].data, outcome)]
  /\ UNCHANGED <<rule, data, call, result, engineData, engineOutcome, sets>>

\* the caller has taken the result
Complete(c) ==
  /\ calls[c].pc = "done"
  /\ calls' = [calls EXCEPT ![c] = Idle]
  /\ UNCHANGED <<rule, data, call, result, engineData, engineOutcome, sets>>

NextInterleaved ==
  \E c \in Callers :
    \/ Invoke(c)
    \/ TraverseStep(c)
    \/ TraverseEnd(c)
    \/ HasKeyStep(c)
    \/ ApplyStep(c)
    \/ Complete(c)

SpecInterleaved == InitInterleaved /\ [][NextInterleaved]_vars

(***************************************************************************)
(* Vocabulary of the properties                                            *)
(***************************************************************************)
\* the strings of the array a finished call returned
ReturnedKeys == [i \in 1..Len(result.value.items) |-> result.value.items[i].s]

Range(s) == {s[i] : i \in 1..Len(s)}

FirstIndex(s, x) == CHOOSE i \in 1..Len(s) : s[i] = x /\ \A j \in 1..(i - 1) : s[j] # x

\* the path an object node's own var property names, if any
NamedBy(n) ==
  IF n.t = "object" /\ \E i \in 1..Len(n.props) : n.props[i].k = VAR
    THEN LET v == n.props[CHOOSE i \in 1..Len(n.props) : n.props[i].k = VAR].v IN
      IF v.t = "string" THEN {v.s}
      ELSE IF v.t = "array" /\ v.items # <<>> /\ v.items[1].t = "string"
        THEN {v.items[1].s}
      ELSE {}
    ELSE {}

RECURSIVE Reachable(_)
\* the nodes reachable from n through array elements and property values
Reachable(n) ==
  {n} \cup
    (IF n.t = "array" THEN UNION {Reachable(n.items[i]) : i \in 1..Len(n.items)}
     ELSE IF n.t = "object"
       THEN UNION {Reachable(n.props[i].v) : i \in 1..Len(n.props)}
     ELSE {})

VarStrings(r) == UNION {NamedBy(n) : n \in Reachable(r)}

\* the strings that occur in r as values (literal operands, defaults, paths)
StringValues(r) == {n.s : n \in {m \in Reachable(r) : m.t = "string"}}

RECURSIVE Occurrences(_)
\* every reference to a path, repeated ones included, in the order traverse
\* meets them: a node's own var first, then its values in Object.values order
Occurrences(n) ==
  LET each(items) ==
        LET F[i \in 0..Len(items)] ==
              IF i = 0 THEN <<>> ELSE F[i - 1] \o Occurrences(items[i])
        IN F[Len(items)]
  IN IF n.t = "array" THEN each(n.items)
     ELSE IF n.t = "object"
       THEN (IF NamedBy(n) = {} THEN <<>> ELSE <<CHOOSE s \in NamedBy(n) : TRUE>>)
            \o each(ObjectValues(n))
     ELSE <<>>

(***************************************************************************)
(* getRequiredKeys                                                         *)
(***************************************************************************)
\* C1: the array getRequiredKeys returns holds no path twice, holds exactly
\* the paths the traversal meets, and orders them by their first occurrence
\* in the traversal.
C1_DedupFirstOccurrence ==
  call = "getRequiredKeys" =>
    /\ result.kind = "return"
    /\ LET ks == ReturnedKeys
           occ == Occurrences(rule)
       IN /\ \A i \in 1..Len(ks) : \A j \in 1..Len(ks) : ks[i] = ks[j] => i = j
          /\ Range(ks) = Range(occ)
          /\ \A i \in 1..Len(ks) : \A j \in 1..Len(ks) :
               i < j => FirstIndex(occ, ks[i]) < FirstIndex(occ, ks[j])

\* a path is met, then another one, then the first again
C1_Witness ==
  /\ call = "getRequiredKeys"
  /\ LET occ == Occurrences(rule) IN
       \E i \in 1..Len(occ) : \E j \in 1..Len(occ) : \E k \in 1..Len(occ) :
         i < j /\ j < k /\ occ[i] = occ[k] /\ occ[i] # occ[j]
  /\ Len(ReturnedKeys) = 2

\* C2: the paths getRequiredKeys returns are exactly the strings named by the
\* var property (a string, or an array whose first element is a string) of
\* some object node reachable from the root; no other string of the rule is
\* returned.
C2_ExactlyVarStrings ==
  call = "getRequiredKeys" =>
    /\ result.kind = "return"
    /\ Range(ReturnedKeys) = VarStrings(rule)

\* a var in array form whose default is a string that is not returned
C2_Witness ==
  /\ call = "getRequiredKeys"
  /\ \E n \in Reachable(rule) :
       /\ n.t = "object" /\ NamedBy(n) # {}
       /\ GetProp(n, VAR).t = "array"
       /\ Len(GetProp(n, VAR).items) = 2
       /\ GetProp(n, VAR).items[2].t = "string"
       /\ GetProp(n, VAR).items[2].s \notin Range(ReturnedKeys)
  /\ StringValues(rule) \ Range(ReturnedKeys) # {}
  /\ Range(ReturnedKeys) # {}

(***************************************************************************)
(* canExecuteRule                                                          *)
(***************************************************************************)
\* the required keys of the rule in the state, as getRequiredKeys returns them
RequiredKeys == getRequiredKeys(rule).value.items

Passes(d, key) == hasKey(d, key) = Return(Bool(TRUE))

\* C3: canExecuteRule(rule, data) returns true exactly when every path of
\* getRequiredKeys(rule) passes hasKey(data, path), and false exactly when
\* some path fails it.
C3_AllKeysPass ==
  call = "canExecuteRule" =>
    /\ result \in {Return(Bool(TRUE)), Return(Bool(FALSE))}
    /\ (result = Return(Bool(TRUE)))
         <=> (\A i \in 1..Len(RequiredKeys) : Passes(data, RequiredKeys[i]))
    /\ (result = Return(Bool(FALSE)))
         <=> (\E i \in 1..Len(RequiredKeys) : ~Passes(data, RequiredKeys[i]))

\* two required keys, the first exists in the data, the second does not
C3_Witness ==
  /\ call = "canExecuteRule"
  /\ Len(RequiredKeys) = 2
  /\ Passes(data, RequiredKeys[1])
  /\ ~Passes(data, RequiredKeys[2])
  /\ result = Return(Bool(FALSE))

\* the value reached from d through the first n segments, each an own
\* property of an object or array; Missing when a segment names none
Missing == [t |-> "missing"]

RECURSIVE OwnValue(_, _, _)
OwnValue(d, segs, n) ==
  IF n = 0 THEN d
  ELSE LET parent == OwnValue(d, segs, n - 1) IN
    IF parent.t \in {"object", "array"} /\ HasOwn(parent, segs[n])
      THEN GetProp(parent, segs[n])
      ELSE Missing

\* C4: for a rule with one required path, if every segment names a property
\* that exists and the final property holds null or undefined then
\* canExecuteRule returns true; if the object reached before the final
\* segment does not have the final property then it returns false.
C4_NullPresentAbsentFalse ==
  (call = "canExecuteRule" /\ Len(RequiredKeys) = 1) =>
    LET segs == Split(RequiredKeys[1].s)
        parent == OwnValue(data, segs, Len(segs) - 1)
    IN /\ IsNullish(OwnValue(data, segs, Len(segs))) => result = Return(Bool(TRUE))
       /\ (parent.t \in {"object", "array"} /\ ~HasOwn(parent, segs[Len(segs)]))
            => result = Return(Bool(FALSE))

\* C5: a rule with no required key can be executed with any data, also null,
\* undefined, a primitive or an array.
C5_NoKeysAlwaysTrue ==
  (call = "canExecuteRule" /\ Len(RequiredKeys) = 0) => result = Return(Bool(TRUE))

\* a rule without keys checked against null
C5_Witness ==
  /\ call = "canExecuteRule"
  /\ Len(RequiredKeys) = 0
  /\ rule.t = "object"
  /\ data = Null
  /\ result = Return(Bool(TRUE))

\* C6: getRequiredKeys and canExecuteRule return a value and raise nothing,
\* for every rule and every data.
C6_Total ==
  call \in {"getRequiredKeys", "canExecuteRule"} => result.kind = "return"

\* a two-segment path whose first segment leads to a primitive
C6_Witness ==
  /\ call = "canExecuteRule"
  /\ Len(RequiredKeys) = 1
  /\ LET segs == Split(RequiredKeys[1].s) IN
       /\ Len(segs) = 2
       /\ OwnValue(data, segs, 1).t \in {"number", "string", "boolean"}
  /\ result = Return(Bool(FALSE))

(***************************************************************************)
(* evaluateRule                                                            *)
(***************************************************************************)
IsPrefix(p, s) == Len(p) <= Len(s) /\ SubSeq(s, 1, Len(p)) = p

\* the value jsonLogic.apply threw in the call the state shows
Native == engineOutcome.error

EngineThrew == call = "evaluateRule" /\ engineOutcome.kind = "throw"

\* the thrown value has a message: an Error instance, or an object with a
\* string property named message
CarriesMessage(e) ==
  \/ e.t = "Error"
  \/ e.t = "object" /\ HasOwn(e, MESSAGE) /\ GetProp(e, MESSAGE).t = "string"

MessageOf(e) == GetProp(e, MESSAGE).s

\* C7: when the engine throws, whatever it throws, evaluateRule throws an
\* Error built by evaluateRule itself ("Failed to evaluate rule: ..."), never
\* the value the engine threw, and returns nothing.
C7_FailuresNormalized ==
  EngineThrew =>
    /\ result.kind = "throw"
    /\ result.error.t = "Error"
    /\ IsPrefix(PREFIX, result.error.message)
    /\ result.error # Native

\* the engine threw a value that is not an Error instance
C7_Witness ==
  /\ EngineThrew
  /\ Native.t = "string"
  /\ result.kind = "throw"

C9_DataDefault ==
  call = "evaluateRule" =>
    engineData = (IF data \in {Undefined, Null} THEN Obj(<<>>) ELSE data)

\* null data replaced by the empty object
C9_Witness ==
  /\ call = "evaluateRule"
  /\ data = Null
  /\ engineData = Obj(<<>>)

\* C10: when the engine returns a value, evaluateRule returns that very
\* value, whatever its type, and raises nothing.
C10_ValuePassedThrough ==
  (call = "evaluateRule" /\ engineOutcome.kind = "return") =>
    result = Return(engineOutcome.value)

\* the engine returned a number
C10_Witness ==
  /\ call = "evaluateRule"
  /\ engineOutcome = Return(Num(0))
  /\ result = Return(Num(0))

(***************************************************************************)
(* var nodes                                                               *)
(***************************************************************************)
\* the strings getRequiredKeys returns for node n taken as a rule
KeysOf(n) ==
  LET ks == getRequiredKeys(n).value.items IN [i \in 1..Len(ks) |-> ks[i].s]

\* the object nodes of the rule whose var is an array starting with a string
ArrayFormNodes ==
  {n \in Reachable(rule) :
     /\ n.t = "object" /\ HasOwn(n, VAR)
     /\ GetProp(n, VAR).t = "array"
     /\ GetProp(n, VAR).items # <<>>
     /\ GetProp(n, VAR).items[1].t = "string"}

PathOf(n) == GetProp(n, VAR).items[1].s

\* the elements after the path: the default value and what follows it
Defaults(n) == Tail(GetProp(n, VAR).items)

IsPrimitive(v) == v.t \in {"null", "undefined", "boolean", "number", "string"}

\* C11: for a var node {var: [p, default, ...]} with p a string, p is the
\* path recorded for the node, and no later element of the array is recorded
\* as a path, also when it is a string.
C11_ArrayFormFirstElement ==
  call = "getRequiredKeys" =>
    \A n \in ArrayFormNodes :
      /\ PathOf(n) \in Range(ReturnedKeys)
      /\ KeysOf(n)[1] = PathOf(n)
      /\ (\A i \in 1..Len(Defaults(n)) : IsPrimitive(Defaults(n)[i]))
           => KeysOf(n) = <<PathOf(n)>>

\* the rule is {var: [p, "q", "a.b"]} with two further strings
C11_Witness ==
  /\ call = "getRequiredKeys"
  /\ rule \in ArrayFormNodes
  /\ Len(Defaults(rule)) = 2
  /\ Defaults(rule)[1].t = "string" /\ Defaults(rule)[1].s # PathOf(rule)
  /\ ReturnedKeys = <<PathOf(rule)>>

(***************************************************************************)
(* hasKey                                                                  *)
(***************************************************************************)
\* the segments of the i-th required key
SegsOf(i) == Split(RequiredKeys[i].s)

\* C15: the existence check fails for a segment whenever the object reached
\* does not itself own a property of that name; an inherited name such as
\* toString does not count as present.
C15_OwnPropertiesOnly ==
  call = "canExecuteRule" =>
    \A i \in 1..Len(RequiredKeys) : \A n \in 1..Len(SegsOf(i)) :
      LET parent == OwnValue(data, SegsOf(i), n - 1) IN
        (parent.t \in {"object", "array"} /\ ~HasOwn(parent, SegsOf(i)[n]))
          => result = Return(Bool(FALSE))

\* C16: the existence check returns false, and raises nothing, whenever the
\* value reached before some segment is null, undefined, a string, a number
\* or a boolean; with such data every path fails.
C16_NonObjectFails ==
  call = "canExecuteRule" =>
    \A i \in 1..Len(RequiredKeys) : \A n \in 1..Len(SegsOf(i)) :
      IsPrimitive(OwnValue(data, SegsOf(i), n - 1))
        => /\ hasKey(data, RequiredKeys[i]) = Return(Bool(FALSE))
           /\ result = Return(Bool(FALSE))

\* a path of two segments whose first property is present and holds a string
C16_Witness ==
  /\ call = "canExecuteRule"
  /\ Len(RequiredKeys) = 1
  /\ Len(SegsOf(1)) = 2
  /\ OwnValue(data, SegsOf(1), 1).t = "string"
  /\ result = Return(Bool(FALSE))

(***************************************************************************)
(* Order of the traversal, default values, other var values                *)
(***************************************************************************)
ObjectNodes == {n \in Reachable(rule) : n.t = "object"}

\* property i of n was defined before property j
DefinedBefore(n, i, j) == i < j

\* property i of n is enumerated before property j: integer-like names
\* first, in ascending numeric order, then the other names as defined
EnumeratedBefore(n, i, j) ==
  LET ki == n.props[i].k
      kj == n.props[j].k
  IN IF IsArrayIndex(ki) /\ IsArrayIndex(kj) THEN DecimalValue(ki) < DecimalValue(kj)
     ELSE IF IsArrayIndex(ki) THEN TRUE
     ELSE IF IsArrayIndex(kj) THEN FALSE
     ELSE i < j

\* the paths first found under property i of n, the properties being taken
\* in the order Before
FirstFoundUnder(n, i, Before(_, _, _)) ==
  Range(KeysOf(n.props[i].v))
    \ (NamedBy(n) \cup
       UNION {Range(KeysOf(n.props[m].v)) :
                m \in {m \in 1..Len(n.props) : Before(n, m, i)}})

\* in the keys of n, paths first found under a property precede the paths
\* first found under every property that comes after it in the order Before
FoundInOrder(n, Before(_, _, _)) ==
  \A i \in 1..Len(n.props) : \A j \in 1..Len(n.props) :
    Before(n, i, j) =>
      \A kx \in FirstFoundUnder(n, i, Before) :
        \A ky \in FirstFoundUnder(n, j, Before) :
          FirstIndex(KeysOf(n), kx) < FirstIndex(KeysOf(n), ky)

\* C17 as stated: the property values of every object node are traversed in
\* the order in which the properties were defined, whatever their names.
C17_InsertionOrder ==
  call = "getRequiredKeys" => \A n \in ObjectNodes : FoundInOrder(n, DefinedBefore)

\* C17 amended: the property values of every object node are traversed in
\* the order of Object.values: integer-like names first, ascending, then the
\* other names in the order in which they were defined.
C17_EnumerationOrder ==
  call = "getRequiredKeys" => \A n \in ObjectNodes : FoundInOrder(n, EnumeratedBefore)

\* an integer-like name defined after another name, its path returned first
C17_Witness ==
  /\ call = "getRequiredKeys"
  /\ rule.t = "object"
  /\ Len(rule.props) = 3
  /\ ~IsArrayIndex(rule.props[1].k)
  /\ rule.props[3].k = ZERO
  /\ Len(ReturnedKeys) = 2
  /\ ReturnedKeys[1] \in Range(KeysOf(rule.props[3].v))
  /\ ReturnedKeys[2] \in Range(KeysOf(rule.props[1].v))

\* the paths named by var nodes inside the elements after the path
DefaultVarStrings(n) == UNION {VarStrings(Defaults(n)[i]) : i \in 1..Len(Defaults(n))}

\* C18: a var reference {var: q} at any depth inside the default of an
\* array-form var node {var: [p, default]} is returned, after p.
C18_NestedVarInDefault ==
  call = "getRequiredKeys" =>
    \A n \in ArrayFormNodes : \A q \in DefaultVarStrings(n) :
      /\ q \in Range(ReturnedKeys)
      /\ q \in Range(KeysOf(n))
      /\ q # PathOf(n)
           => FirstIndex(KeysOf(n), PathOf(n)) < FirstIndex(KeysOf(n), q)

\* the default is an operator whose argument array holds {var: q}
C18_Witness ==
  /\ call = "getRequiredKeys"
  /\ rule \in ArrayFormNodes
  /\ Defaults(rule)[1].t = "object"
  /\ ~HasOwn(Defaults(rule)[1], VAR)
  /\ DefaultVarStrings(rule) \ {PathOf(rule)} # {}
  /\ Len(ReturnedKeys) = 2
  /\ ReturnedKeys[2] \in DefaultVarStrings(rule)

\* C19 as stated: the elements after the first of an array-form var are not
\* traversed, so a var reference inside a default value is not returned.
C19_DefaultNotTraversed ==
  call = "getRequiredKeys" =>
    \A n \in ArrayFormNodes : Range(KeysOf(n)) = {PathOf(n)}

\* C19 amended: the elements after the first are not recorded as paths
\* themselves but they are traversed: the keys of an array-form var node are
\* its path and the paths of the var references inside its later elements.
C19_DefaultTraversedNotRecorded ==
  call = "getRequiredKeys" =>
    \A n \in ArrayFormNodes :
      Range(KeysOf(n)) = {PathOf(n)} \cup DefaultVarStrings(n)

\* {var: [p, {var: q}]} returns p and q
C19_Witness ==
  /\ call = "getRequiredKeys"
  /\ rule \in ArrayFormNodes
  /\ Len(Defaults(rule)) = 1
  /\ Defaults(rule)[1].t = "object"
  /\ HasOwn(Defaults(rule)[1], VAR)
  /\ ReturnedKeys = <<PathOf(rule)>> \o KeysOf(Defaults(rule)[1])
  /\ Len(ReturnedKeys) = 2

\* the object nodes whose var is neither a string nor an array that starts
\* with a string
OtherVarNodes ==
  {n \in ObjectNodes : HasOwn(n, VAR) /\ NamedBy(n) = {}}

\* C20: an object node whose var is neither a string nor an array with a
\* string first element records no path of its own; its property values are
\* traversed all the same, so {var: {var: 'a'}} yields exactly ['a'].
C20_OtherVarRecordsNothing ==
  call = "getRequiredKeys" =>
    /\ \A n \in OtherVarNodes :
         /\ RecordVar(n, <<>>) = <<>>
         /\ Range(KeysOf(n)) = UNION {VarStrings(n.props[i].v) : i \in 1..Len(n.props)}
    /\ rule = VarNode(VarNode(Str(A))) => ReturnedKeys = <<A>>

\* the computed reference {var: {var: 'a'}}
C20_Witness ==
  /\ call = "getRequiredKeys"
  /\ rule = VarNode(VarNode(Str(A)))
  /\ rule \in OtherVarNodes
  /\ ReturnedKeys = <<A>>

(***************************************************************************)
(* Overlapping invocations                                                 *)
(***************************************************************************)
Finished == {c \in Callers : calls[c].pc = "done"}

\* the calls that have started and not yet finished
Running == {c \in Callers : calls[c].pc \in {"traverse", "check", "apply"}}

\* what the call of c returns when it runs alone
Alone(c) ==
  IF calls[c].fn = "getRequiredKeys" THEN getRequiredKeys(calls[c].rule)
  ELSE canExecuteRule(calls[c].rule, calls[c].data)

\* C12: no step of evaluateRule, getRequiredKeys or canExecuteRule, up to
\* and including the one that returns or throws, changes the rule or the
\* data the call was given.
C12_ArgumentsNotMutated ==
  [][\A c \in Callers :
       (calls[c].pc # "idle" /\ calls'[c].pc # "idle") =>
         /\ calls'[c].rule = calls[c].rule
         /\ calls'[c].data = calls[c].data]_vars

\* a call that traversed an array rule has returned while another call has
\* failed, each still holding the arguments it was given
C12_Witness ==
  \E c \in Finished : \E o \in Finished :
    /\ calls[c].fn = "canExecuteRule"
    /\ IsArray(calls[c].rule)
    /\ calls[c].rule.items # <<>>
    /\ calls[c].data.t = "object"
    /\ calls[c].result = Return(Bool(TRUE))
    /\ calls[o].fn = "evaluateRule"
    /\ calls[o].result.kind = "throw"

\* C13: two finished calls of getRequiredKeys on the same rule hold the same
\* sequence, and two finished calls of canExecuteRule on the same rule and
\* data hold the same boolean, whatever calls ran before or in between.
C13_SameArgumentsSameResult ==
  \A c \in Finished : \A o \in Finished :
    (/\ calls[c].fn \in {"getRequiredKeys", "canExecuteRule"}
     /\ calls[c].fn = calls[o].fn
     /\ calls[c].rule = calls[o].rule
     /\ calls[c].data = calls[o].data)
      => calls[c].result = calls[o].result

\* two finished calls on the same rule, the Set of one of them first used
\* by an earlier call on another rule
C13_Witness ==
  \E c \in Finished : \E o \in Finished :
    /\ c # o
    /\ calls[c].fn = "getRequiredKeys"
    /\ calls[o].fn = "getRequiredKeys"
    /\ calls[c].rule = calls[o].rule
    /\ calls[c].result = calls[o].result
    /\ Len(calls[c].result.value.items) = 2

\* C14: however the steps of the calls are interleaved, a finished call of
\* getRequiredKeys or canExecuteRule holds the result the call has when it
\* runs alone.
C14_InterleavedAsAlone ==
  \A c \in Finished :
    calls[c].fn \in {"getRequiredKeys", "canExecuteRule"} =>
      calls[c].result = Alone(c)

\* a call that started while another was in the middle of its traversal has
\* finished, the other has recorded a key and is still traversing
C14_Witness ==
  \E c \in Finished : \E o \in Running :
    /\ calls[c].fn = "getRequiredKeys"
    /\ Len(calls[c].result.value.items) = 3
    /\ calls[o].pc = "traverse"
    /\ calls[o].rule # calls[c].rule
    /\ sets[KeySetOf(o)] # <<>>
    /\ calls[o].stack # <<>>

(***************************************************************************)
(* canExecuteRule over operators and over larger data                      *)
(***************************************************************************)
\* the rules {op: [r1, ..., rn]} with op other than var
OperatorRules ==
  {r \in ValidatorRules :
     r.t = "object" /\ Len(r.props) = 1 /\ r.props[1].k # VAR /\ IsArray(r.props[1].v)}

SubRules(r) == r.props[1].v.items

\* C21: for a rule {op: [r1, ..., rn]} with op other than var,
\* canExecuteRule(rule, data) is the conjunction of canExecuteRule(ri, data),
\* for `or` as for every other operator.
C21_ConjunctionOfSubRules ==
  (call = "canExecuteRule" /\ rule \in OperatorRules) =>
    result = Return(Bool(\A j \in 1..Len(SubRules(rule)) :
                           canExecuteRule(SubRules(rule)[j], data) = Return(Bool(TRUE))))

\* an `or` whose first branch can run and whose second branch misses a key
C21_Witness ==
  /\ call = "canExecuteRule"
  /\ rule \in OperatorRules
  /\ rule.props[1].k = OR
  /\ canExecuteRule(SubRules(rule)[1], data) = Return(Bool(TRUE))
  /\ canExecuteRule(SubRules(rule)[2], data) = Return(Bool(FALSE))
  /\ result = Return(Bool(FALSE))

RECURSIVE Extends(_, _)
\* e is d with properties added, at the top level or inside nested objects:
\* every property of d is in e, equal or itself extended
Extends(d, e) ==
  \/ d = e
  \/ /\ d.t = "object"
     /\ e.t = "object"
     /\ \A i \in 1..Len(d.props) :
          /\ HasOwn(e, d.props[i].k)
          /\ Extends(d.props[i].v, GetProp(e, d.props[i].k))

\* C22: if canExecuteRule(rule, data) is true then canExecuteRule(rule, e)
\* is true for every e obtained from data by adding properties.
C22_MonotoneInData ==
  (call = "canExecuteRule" /\ result = Return(Bool(TRUE))) =>
    \A e \in ValidatorData :
      Extends(data, e) => canExecuteRule(rule, e) = Return(Bool(TRUE))

\* a rule with a nested path that can run on the data, and data extended
\* inside the nested object and at the top level
C22_Witness ==
  /\ call = "canExecuteRule"
  /\ result = Return(Bool(TRUE))
  /\ Len(RequiredKeys) = 1
  /\ Len(SegsOf(1)) = 2
  /\ data.t = "object"
  /\ \E e \in ValidatorData :
       /\ e.t = "object"
       /\ Extends(data, e)
       /\ Len(e.props) > Len(data.props)
  /\ \E e \in ValidatorData :
       /\ e.t = "object"
       /\ Extends(data, e)
       /\ Len(e.props) = Len(data.props)
       /\ e # data

(***************************************************************************)
(* Dots and empty segments                                                 *)
(***************************************************************************)
Dots(p) == Cardinality({i \in 1..Len(p) : p[i] = DOT})

\* C23: a path with n dots is checked as n + 1 successive lookups: on data
\* whose only matching property is one named by the whole dotted path
\* canExecuteRule returns false; getRequiredKeys returns the path unsplit.
C23_DotsAlwaysSeparate ==
  /\ call = "getRequiredKeys" =>
       \A p \in ValidatorPaths : rule = VarNode(Str(p)) => ReturnedKeys = <<p>>
  /\ (call = "canExecuteRule" /\ Len(RequiredKeys) = 1) =>
       LET p == RequiredKeys[1].s IN
         /\ Len(SegsOf(1)) = Dots(p) + 1
         /\ (/\ Dots(p) >= 1
             /\ data.t = "object"
             /\ HasOwn(data, p)
             /\ ~HasOwn(data, SegsOf(1)[1]))
              => result = Return(Bool(FALSE))

\* canExecuteRule({var: 'a.b'}, {'a.b': 1}) is false
C23_Witness ==
  /\ call = "canExecuteRule"
  /\ rule = VarNode(Str(AB))
  /\ data = Obj(<<Prop(AB, Num(1))>>)
  /\ SegsOf(1) = <<A, B>>
  /\ result = Return(Bool(FALSE))

\* C26: an empty path or segment is looked up as a property named '':
\* getRequiredKeys({var: ''}) is [''], canExecuteRule({var: ''}, d) is true
\* exactly when d has a property named '' (false for {a: 1}), and a path
\* with an empty segment passes only if the value reached before it has a
\* property named ''.
C26_EmptySegmentIsAName ==
  /\ (call = "getRequiredKeys" /\ rule = VarNode(Str(EMPTY))) => ReturnedKeys = <<EMPTY>>
  /\ (call = "canExecuteRule" /\ rule = VarNode(Str(EMPTY))) =>
       /\ result = Return(Bool(data.t \in {"object", "array"} /\ HasOwn(data, EMPTY)))
       /\ data = Obj(<<Prop(A, Num(1))>>) => result = Return(Bool(FALSE))
  /\ (call = "canExecuteRule" /\ Len(RequiredKeys) = 1) =>
       \A n \in 1..Len(SegsOf(1)) :
         (SegsOf(1)[n] = EMPTY /\ result = Return(Bool(TRUE)))
           => HasOwn(OwnValue(data, SegsOf(1), n - 1), EMPTY)

\* 'a..b' passes on {a: {'': {b: 1}}}
C26_Witness ==
  /\ call = "canExecuteRule"
  /\ Len(RequiredKeys) = 1
  /\ SegsOf(1) = <<A, EMPTY, B>>
  /\ data = Obj(<<Prop(A, Obj(<<Prop(EMPTY, Obj(<<Prop(B, Num(1))>>))>>))>>)
  /\ result = Return(Bool(TRUE))

(***************************************************************************)
(* Pre-order                                                               *)
(***************************************************************************)
\* C24: the path an object node's own var property names is the first of
\* the keys of that node, before every path found in its property values,
\* wherever the var property sits among the properties:
\* {and: [{var: 'b'}], var: 'a'} yields ['a', 'b'].
C24_OwnVarBeforeValues ==
  call = "getRequiredKeys" =>
    /\ \A n \in ObjectNodes : \A p \in NamedBy(n) :
         /\ KeysOf(n)[1] = p
         /\ \A q \in Range(KeysOf(n)) \ {p} :
              FirstIndex(KeysOf(n), p) < FirstIndex(KeysOf(n), q)
    /\ rule = Obj(<<Prop(AND, Arr(<<VarNode(Str(B))>>)), Prop(VAR, Str(A))>>)
         => ReturnedKeys = <<A, B>>

\* the var property defined after an operator property that holds a var
C24_Witness ==
  /\ call = "getRequiredKeys"
  /\ rule.t = "object"
  /\ Len(rule.props) = 2
  /\ rule.props[2].k = VAR
  /\ NamedBy(rule) = {A}
  /\ VarStrings(rule.props[1].v) = {B}
  /\ ReturnedKeys = <<A, B>>

(***************************************************************************)
(* Arrays in the data                                                      *)
(***************************************************************************)
\* seg is the decimal string of an index of the array arr
IsIndexOf(seg, arr) == IsArrayIndex(seg) /\ DecimalValue(seg) < Len(arr.items)

\* the call checks one path of two segments whose first segment names an
\* array property of the data
ArrayUnderKey ==
  /\ call = "canExecuteRule"
  /\ Len(RequiredKeys) = 1
  /\ Len(SegsOf(1)) = 2
  /\ data.t = "object"
  /\ HasOwn(data, SegsOf(1)[1])
  /\ GetProp(data, SegsOf(1)[1]).t = "array"

\* the call checks one path on data that is itself an array
ArrayData ==
  /\ call = "canExecuteRule"
  /\ Len(RequiredKeys) = 1
  /\ data.t = "array"

\* C25 as stated: for data {items: [x0, ..., x(n-1)]} the path 'items.i'
\* passes exactly when i is the decimal string of an index 0 <= i < n.
C25_ExactlyIndices ==
  ArrayUnderKey =>
    (result = Return(Bool(TRUE)))
      <=> IsIndexOf(SegsOf(1)[2], GetProp(data, SegsOf(1)[1]))

\* the names other than indices that an array answers to: its own length
\* and the names it inherits
ArrayNames == {LENGTH} \cup ObjectPrototypeKeys

\* C25 amended: a segment looked up in an array passes exactly when it is
\* the decimal string of an index 0 <= i < n, or `length`, or a name the
\* array inherits; a further segment after an index descends into the
\* element at that index.
C25_IndicesAndArrayNames ==
  /\ ArrayUnderKey =>
       result = Return(Bool(\/ IsIndexOf(SegsOf(1)[2], GetProp(data, SegsOf(1)[1]))
                            \/ SegsOf(1)[2] \in ArrayNames))
  /\ (ArrayData /\ Len(SegsOf(1)) = 1) =>
       result = Return(Bool(IsIndexOf(SegsOf(1)[1], data) \/ SegsOf(1)[1] \in ArrayNames))
  /\ (ArrayData /\ Len(SegsOf(1)) = 2 /\ IsIndexOf(SegsOf(1)[1], data)) =>
       result = hasKey(data.items[DecimalValue(SegsOf(1)[1]) + 1], Str(SegsOf(1)[2]))

\* '0.a' passes on [{a: 1}]: the index is found and the next segment is
\* looked up in the element
C25_Witness ==
  /\ ArrayData
  /\ SegsOf(1) = <<ZERO, A>>
  /\ data = Arr(<<Obj(<<Prop(A, Num(1))>>)>>)
  /\ result = Return(Bool(TRUE))

====
